---- MODULE Spec2Model ----
(***************************************************************************)
(* State-machine model of the RLWrapper planner session                    *)
(* (src/RLWrapper/RLWrapper.cpp, src/RLWrapper/RLWrapper.h).               *)
(*                                                                         *)
(* One PlannerState object is modelled.  Every boundary entry point is one *)
(* atomic action (the facade is synchronous and single threaded).          *)
(*                                                                         *)
(* Pointers: every object the session owns is named by the id of the       *)
(* owning slot; 0 is nullptr.  When an owner releases its object, every    *)
(* raw pointer to that object becomes the invalid pointer value Invalid:   *)
(* it dangles, and compares equal to no live object, the replacement in    *)
(* the same slot included.                                                 *)
(*                                                                         *)
(* Scalars: joint values are small integers, delta and epsilon are in      *)
(* thousandths (0.1 is 100), durations are milliseconds.                   *)
(***************************************************************************)
EXTENDS Integers, Sequences, FiniteSets, TLC

\* ---------------------------------------------------------------- codes
RL_SUCCESS == 0
RL_ERROR_INVALID_POINTER == -1
RL_ERROR_INVALID_PARAMETER == -2
RL_ERROR_LOAD_FAILED == -3
RL_ERROR_PLANNING_FAILED == -4
RL_ERROR_NOT_INITIALIZED == -5
RL_ERROR_EXCEPTION == -6

\* ---------------------------------------------------------------- bounds
\* Joint values range over 0..MaxVal; the robot's joint limits are
\* 0..JointMax, so MaxVal > JointMax gives configurations outside the limits.
MaxVal == 2
JointMax == 1
\* Degrees of freedom of the robot descriptions on disk: MinDof..MaxDof.
MinDof == 2
MaxDof == 3
\* Number of models in a scene file.
NumModels == 1
\* Largest number of intermediate waypoints of a solved path.
MaxMids == 1
\* Largest maxWaypoints argument.
MaxWaypointsArg == 3
\* Number of boundary calls the host makes.
MaxCalls == 4

Dofs == MinDof..MaxDof
Vals == 0..MaxVal

\* A configuration array of length n: the last joint carries z, every other
\* joint carries a.  The empty sequence stands for a null array pointer.
Config(n, a, z) == [i \in 1..n |-> IF i = n THEN z ELSE a]
Configs(n) == {Config(n, 0, z) : z \in Vals}
AllConfigs == UNION {Configs(n) : n \in Dofs}
NullArray == <<>>

\* ---------------------------------------------------------------- objects
NullVector == [id |-> 0, q |-> <<>>]
NullKinematics == [id |-> 0, dof |-> 0, dyn |-> FALSE]
NullMdl == [id |-> 0, dof |-> 0]
NullRobotModel == [scene |-> 0, index |-> -1]
NullModel == [id |-> 0, kin |-> 0, mdl |-> 0, model |-> NullRobotModel, scene |-> 0]
NullSampler == [id |-> 0, model |-> 0]
NullVerifier == [id |-> 0, model |-> 0, delta |-> 0]
NullNearestNeighbors == [id |-> 0, model |-> 0]
NullOptimizer == [id |-> 0, model |-> 0, verifier |-> 0]
NullPlanner == [id |-> 0, kind |-> "", model |-> 0, start |-> 0, goal |-> 0,
                duration |-> 0, delta |-> 0, epsilon |-> 0,
                sampler |-> 0, verifier |-> 0, nearestNeighbors |-> 0]

\* Pointer values.  Invalid is the value of a pointer whose object was released.
Invalid == -1
\* Ids of the objects owned through state->kinematics alone (KinId) and
\* through state->mdl (MdlId: a Dynamic, shared with state->kinematics).
KinId == 1
MdlId == 2
\* Ids of the vectors: the stored start and goal, and the tempStart and
\* tempGoal of a running PlanTrajectory.
StartId == 1
GoalId == 2
TempStartId == 3
TempGoalId == 4
\* Id of the single live object of every other kind (scene, planning model,
\* sampler, verifier, nearest neighbours, optimizer, planner).
ObjId == 1

\* The value of pointer ptr once the object id has been released.
Released(ptr, id) == IF ptr = id THEN Invalid ELSE ptr

VARIABLES
    calls,             \* number of boundary calls the host has made
    alive,             \* the handle returned by CreatePlanner is not yet destroyed
    scene,             \* state->scene: id of the owned scene
    kinematics,        \* state->kinematics
    mdl,               \* state->mdl
    model,             \* state->model with its kin, mdl, model, scene pointers
    robotModel,        \* state->robotModel
    initialized,       \* state->initialized
    planner,           \* state->planner
    sampler,           \* state->sampler
    verifier,          \* state->verifier
    nearestNeighbors,  \* state->nearestNeighbors
    optimizer,         \* state->optimizer
    start,             \* state->start
    goal,              \* state->goal
    plannerType,       \* state->plannerType
    delta,             \* state->delta
    epsilon,           \* state->epsilon
    timeoutMs,         \* state->timeoutMs
    last,              \* what the most recent boundary call did and returned
    goodStart,         \* start stored by the most recent call that returned SUCCESS
    goodGoal           \* goal stored by the most recent call that returned SUCCESS

session == <<scene, kinematics, mdl, model, robotModel, initialized, planner,
             sampler, verifier, nearestNeighbors, optimizer, start, goal,
             plannerType, delta, epsilon, timeoutMs>>
vars == <<calls, alive, session, last, goodStart, goodGoal>>

\* The record of a boundary call.  The plan fields are those of a
\* PlanTrajectory call and keep their defaults for every other entry point.
NoCall == [op |-> "CreatePlanner", ret |-> 0, diag |-> FALSE,
           startArg |-> FALSE, goalArg |-> FALSE, useZAxis |-> 1, kindArg |-> "",
           dof |-> 0, effStart |-> <<>>, effGoal |-> <<>>, boundGoal |-> <<>>,
           ran |-> FALSE, path |-> <<>>, probe |-> "",
           pathLen |-> 0, maxWaypoints |-> 0,
           countWritten |-> FALSE, count |-> 0, rows |-> <<>>]
Call(op, ret, diag) == [NoCall EXCEPT !.op = op, !.ret = ret, !.diag = diag]

\* PlannerState::PlannerState
DefaultDelta == 100
DefaultEpsilon == 1
DefaultTimeoutMs == 30000

Init ==
    /\ calls = 0
    /\ alive = TRUE
    /\ scene = 0
    /\ kinematics = NullKinematics
    /\ mdl = NullMdl
    /\ model = NullModel
    /\ robotModel = NullRobotModel
    /\ initialized = FALSE
    /\ planner = NullPlanner
    /\ sampler = NullSampler
    /\ verifier = NullVerifier
    /\ nearestNeighbors = NullNearestNeighbors
    /\ optimizer = NullOptimizer
    /\ start = NullVector
    /\ goal = NullVector
    /\ plannerType = ""
    /\ delta = DefaultDelta
    /\ epsilon = DefaultEpsilon
    /\ timeoutMs = DefaultTimeoutMs
    /\ last = NoCall
    /\ goodStart = <<>>
    /\ goodGoal = <<>>

\* The host makes one more boundary call.
Counted == calls < MaxCalls /\ calls' = calls + 1

\* A call that returns before touching the session.
Rejected(op, ret, diag) ==
    /\ last' = Call(op, ret, diag)
    /\ UNCHANGED <<alive, session, goodStart, goodGoal>>

\* ---------------------------------------------------------------- files
\* A robot description on disk, by what the engine's factories make of it:
\*   "dynamic"      rl::mdl::XmlFactory yields a Dynamic that casts to Kinematics
\*   "dynamicNoKin" a Dynamic whose cast to rl::kin::Kinematics yields null
\*   "kinematics"   only rl::kin::Kinematics::create reads it
\*   "unreadable"   both loaders throw std::exception
\*   "crash"        a loader throws something that is no std::exception
\*   "null"         xmlPath == nullptr
\* dof is the number of joints the description holds; a description of
\* links without a joint has dof 0.
KinFile(kind, dof) == [kind |-> kind, dof |-> dof]
GoodKinFiles == {KinFile("kinematics", d) : d \in Dofs}
                \cup {KinFile("dynamic", MaxDof)}
KinFiles == GoodKinFiles \cup
            {KinFile("kinematics", 0),
             KinFile("dynamicNoKin", MinDof), KinFile("unreadable", 0),
             KinFile("crash", 0), KinFile("null", 0)}
\* A scene description on disk: "scene" loads and holds NumModels models.
SceneFiles == {"scene", "unreadable", "crash", "null"}
ModelIndexes == -1..NumModels

\* ---------------------------------------------------------------- LoadKinematics
\* The body of LoadKinematics for a non-null handle and path: the return code,
\* whether std::cerr was written, the new state->kinematics and state->mdl,
\* and the planning model, whose views dangle once their object is released.
\* A Dynamic replaces both owners, so both former objects are released; a plain
\* Kinematics replaces state->kinematics only, and a former Dynamic lives on
\* in state->mdl.
KinematicsLoad(file) ==
    LET bothReleased == [model EXCEPT !.kin = Released(@, KinId),
                                      !.mdl = Released(@, MdlId)]
    IN
    CASE file.kind = "dynamic" ->
            [ret |-> RL_SUCCESS, diag |-> FALSE,
             kinematics |-> [id |-> MdlId, dof |-> file.dof, dyn |-> TRUE],
             mdl |-> [id |-> MdlId, dof |-> file.dof],
             model |-> bothReleased]
      [] file.kind = "dynamicNoKin" ->
            [ret |-> RL_ERROR_LOAD_FAILED, diag |-> FALSE,
             kinematics |-> NullKinematics,
             mdl |-> [id |-> MdlId, dof |-> file.dof],
             model |-> bothReleased]
      [] file.kind = "kinematics" ->
            [ret |-> RL_SUCCESS, diag |-> FALSE,
             kinematics |-> [id |-> KinId, dof |-> file.dof, dyn |-> FALSE],
             mdl |-> mdl,
             model |-> [model EXCEPT !.kin = Released(@, KinId)]]
      [] file.kind = "unreadable" ->
            [ret |-> RL_ERROR_LOAD_FAILED, diag |-> TRUE,
             kinematics |-> kinematics, mdl |-> mdl, model |-> model]
      [] OTHER ->
            [ret |-> RL_ERROR_EXCEPTION, diag |-> TRUE,
             kinematics |-> kinematics, mdl |-> mdl, model |-> model]

LoadKinematics(h, file) ==
    /\ Counted
    /\ alive
    /\ IF h = 0 \/ file.kind = "null"
       THEN Rejected("LoadKinematics", RL_ERROR_INVALID_POINTER, FALSE)
       ELSE LET r == KinematicsLoad(file) IN
            /\ kinematics' = r.kinematics
            /\ mdl' = r.mdl
            /\ model' = r.model
            /\ last' = Call("LoadKinematics", r.ret, r.diag)
            /\ UNCHANGED <<alive, scene, robotModel, initialized, planner,
                           sampler, verifier, nearestNeighbors, optimizer, start,
                           goal, plannerType, delta, epsilon, timeoutMs,
                           goodStart, goodGoal>>

\* ---------------------------------------------------------------- LoadScene
\* The planning model LoadScene builds: a new SimpleModel wired to the dynamic
\* or the kinematic view of kin (neither when kin is null), to the robot
\* model and to the scene.
WireModel(kin, robot) ==
    [id |-> ObjId,
     kin |-> IF kin.id # 0 /\ ~kin.dyn THEN kin.id ELSE 0,
     mdl |-> IF kin.id # 0 /\ kin.dyn THEN kin.id ELSE 0,
     model |-> robot,
     scene |-> ObjId]

\* A component whose planning model has been released.
StaleModel(c) == [c EXCEPT !.model = Released(@, ObjId)]

\* The body of LoadScene for a non-null handle and path, on a session whose
\* state->kinematics is kin and whose state->model is m.  state->scene is
\* replaced first, which releases the former scene; replaced tells whether
\* state->model was replaced too, which releases the former planning model.
SceneLoad(kin, m, file, robotModelIndex) ==
    LET robot == [scene |-> ObjId, index |-> robotModelIndex]
        wired == WireModel(kin, robot)
        kept == [scene |-> ObjId,
                 robotModel |-> [robotModel EXCEPT !.scene = Released(@, ObjId)],
                 model |-> [m EXCEPT !.scene = Released(@, ObjId),
                                     !.model.scene = Released(@, ObjId)],
                 initialized |-> initialized, replaced |-> FALSE]
        made == [scene |-> ObjId, robotModel |-> robot, model |-> wired,
                 replaced |-> TRUE]
    IN
    CASE file = "unreadable" ->
            [ret |-> RL_ERROR_LOAD_FAILED, diag |-> TRUE] @@ kept
      [] file = "crash" ->
            [ret |-> RL_ERROR_EXCEPTION, diag |-> TRUE] @@ kept
      [] file = "scene" /\ (robotModelIndex < 0 \/ robotModelIndex >= NumModels) ->
            [ret |-> RL_ERROR_INVALID_PARAMETER, diag |-> TRUE] @@ kept
      [] file = "scene" /\ wired.kin = 0 /\ wired.mdl = 0 ->
            [ret |-> RL_ERROR_NOT_INITIALIZED, diag |-> TRUE,
             initialized |-> initialized] @@ made
      [] OTHER ->
            [ret |-> RL_SUCCESS, diag |-> TRUE, initialized |-> TRUE] @@ made

\* A LoadScene that clears initialized on entry and then fails to load.
LoadSceneResetting(h, file, robotModelIndex) ==
    /\ Counted
    /\ alive
    /\ initialized' = FALSE
    /\ last' = Call("LoadScene", RL_ERROR_LOAD_FAILED, TRUE)
    /\ UNCHANGED <<alive, scene, kinematics, mdl, model, robotModel, planner,
                   sampler, verifier, nearestNeighbors, optimizer, start, goal,
                   plannerType, delta, epsilon, timeoutMs, goodStart, goodGoal>>

LoadScene(h, file, robotModelIndex) ==
    /\ Counted
    /\ alive
    /\ IF h = 0 \/ file = "null"
       THEN Rejected("LoadScene", RL_ERROR_INVALID_POINTER, FALSE)
       ELSE LET r == SceneLoad(kinematics, model, file, robotModelIndex) IN
            /\ scene' = r.scene
            /\ robotModel' = r.robotModel
            /\ model' = r.model
            /\ initialized' = r.initialized
            /\ planner' = IF r.replaced THEN StaleModel(planner) ELSE planner
            /\ sampler' = IF r.replaced THEN StaleModel(sampler) ELSE sampler
            /\ verifier' = IF r.replaced THEN StaleModel(verifier) ELSE verifier
            /\ nearestNeighbors' = IF r.replaced THEN StaleModel(nearestNeighbors)
                                   ELSE nearestNeighbors
            /\ optimizer' = IF r.replaced THEN StaleModel(optimizer) ELSE optimizer
            /\ last' = Call("LoadScene", r.ret, r.diag)
            /\ UNCHANGED <<alive, kinematics, mdl, start, goal, plannerType,
                           delta, epsilon, timeoutMs, goodStart, goodGoal>>

\* ---------------------------------------------------------------- planning model
\* state->model->getDofPosition(): the DoF of the dynamic view if the model has
\* one, else of the kinematic view.  A view that is null or dangles is read
\* through an invalid pointer: any value results.
ModelView == IF model.mdl # 0 THEN model.mdl ELSE model.kin
ModelViewLive == ModelView \in {KinId, MdlId}
GetDofPosition ==
    IF ~ModelViewLive THEN Dofs
    ELSE IF ModelView = MdlId THEN {mdl.dof} ELSE {kinematics.dof}

\* state->model->isValid(q): every joint lies within the joint limits.
WithinLimits(q) == \A i \in 1..Len(q) : q[i] >= 0 /\ q[i] <= JointMax
IsValid(q) == IF ModelViewLive THEN {WithinLimits(q)} ELSE BOOLEAN

\* ---------------------------------------------------------------- SetStart / SetGoal
\* "Create or update": the stored vector is reused when it has dof entries,
\* else a new one takes its place; config is then copied into it.
Reallocates(stored, dof) == stored.id = 0 \/ Len(stored.q) # dof
StoreConfiguration(id, config, dof) == [id |-> id, q |-> SubSeq(config, 1, dof)]

\* The planner after SetStart/SetGoal stored a vector under id: a replaced
\* vector leaves the planner's pointers to it dangling, and the planner's
\* field is rebound only when the configuration was valid.
ReboundStart(p, realloc, valid) ==
    LET q == IF realloc THEN [p EXCEPT !.start = Released(@, StartId)] ELSE p
    IN IF valid /\ p.id # 0 THEN [q EXCEPT !.start = StartId] ELSE q
ReboundGoal(p, realloc, valid) ==
    LET q == IF realloc THEN [p EXCEPT !.goal = Released(@, GoalId)] ELSE p
    IN IF valid /\ p.id # 0 THEN [q EXCEPT !.goal = GoalId] ELSE q

\* A setter that looks at the session before it looks at the size, and
\* accepts nothing.
SetStartConfigurationStateFirst(h, config, configSize) ==
    /\ Counted
    /\ alive
    /\ configSize <= Len(config)
    /\ IF h = 0 \/ config = NullArray
       THEN Rejected("SetStartConfiguration", RL_ERROR_INVALID_POINTER, FALSE)
       ELSE IF ~initialized \/ model.id = 0
       THEN Rejected("SetStartConfiguration", RL_ERROR_NOT_INITIALIZED, FALSE)
       ELSE Rejected("SetStartConfiguration", RL_ERROR_INVALID_PARAMETER, FALSE)

SetStartConfiguration(h, config, configSize) ==
    /\ Counted
    /\ alive
    /\ configSize <= Len(config)
    /\ IF h = 0 \/ config = NullArray
       THEN Rejected("SetStartConfiguration", RL_ERROR_INVALID_POINTER, FALSE)
       ELSE IF configSize <= 0
       THEN Rejected("SetStartConfiguration", RL_ERROR_INVALID_PARAMETER, FALSE)
       ELSE IF ~initialized \/ model.id = 0
       THEN Rejected("SetStartConfiguration", RL_ERROR_NOT_INITIALIZED, FALSE)
       ELSE \E dof \in GetDofPosition :
            IF configSize # dof
            THEN Rejected("SetStartConfiguration", RL_ERROR_INVALID_PARAMETER, FALSE)
            ELSE LET stored == StoreConfiguration(StartId, config, dof) IN
                 \E valid \in IsValid(stored.q) :
                    /\ start' = stored
                    /\ planner' = ReboundStart(planner, Reallocates(start, dof), valid)
                    /\ goodStart' = IF valid THEN stored.q ELSE goodStart
                    /\ last' = Call("SetStartConfiguration",
                                    IF valid THEN RL_SUCCESS
                                    ELSE RL_ERROR_INVALID_PARAMETER, FALSE)
                    /\ UNCHANGED <<alive, scene, kinematics, mdl, model, robotModel,
                                   initialized, sampler, verifier, nearestNeighbors,
                                   optimizer, goal, plannerType, delta, epsilon,
                                   timeoutMs, goodGoal>>

SetGoalConfiguration(h, config, configSize) ==
    /\ Counted
    /\ alive
    /\ configSize <= Len(config)
    /\ IF h = 0 \/ config = NullArray
       THEN Rejected("SetGoalConfiguration", RL_ERROR_INVALID_POINTER, FALSE)
       ELSE IF configSize <= 0
       THEN Rejected("SetGoalConfiguration", RL_ERROR_INVALID_PARAMETER, FALSE)
       ELSE IF ~initialized \/ model.id = 0
       THEN Rejected("SetGoalConfiguration", RL_ERROR_NOT_INITIALIZED, FALSE)
       ELSE \E dof \in GetDofPosition :
            IF configSize # dof
            THEN Rejected("SetGoalConfiguration", RL_ERROR_INVALID_PARAMETER, FALSE)
            ELSE LET stored == StoreConfiguration(GoalId, config, dof) IN
                 \E valid \in IsValid(stored.q) :
                    /\ goal' = stored
                    /\ planner' = ReboundGoal(planner, Reallocates(goal, dof), valid)
                    /\ goodGoal' = IF valid THEN stored.q ELSE goodGoal
                    /\ last' = Call("SetGoalConfiguration",
                                    IF valid THEN RL_SUCCESS
                                    ELSE RL_ERROR_INVALID_PARAMETER, FALSE)
                    /\ UNCHANGED <<alive, scene, kinematics, mdl, model, robotModel,
                                   initialized, sampler, verifier, nearestNeighbors,
                                   optimizer, start, plannerType, delta, epsilon,
                                   timeoutMs, goodStart>>

\* ---------------------------------------------------------------- createPlanner
\* The planner createPlanner builds for a kind string, NullPlanner for a
\* string it does not know.  Prm takes no delta and epsilon but the verifier.
PlannerKind(type) ==
    CASE type \in {"rrt", "RRT"} -> "Rrt"
      [] type \in {"rrtConnect", "RRTConnect", "rrtConCon", "RRTConCon"} -> "RrtConCon"
      [] type \in {"rrtGoalBias", "RRTGoalBias"} -> "RrtGoalBias"
      [] type \in {"prm", "PRM"} -> "Prm"
      [] OTHER -> ""

createPlanner(type, smp, vrf, nn, d, e) ==
    LET kind == PlannerKind(type) IN
    IF kind = "" THEN NullPlanner
    ELSE [NullPlanner EXCEPT
            !.id = ObjId,
            !.kind = kind,
            !.delta = IF kind = "Prm" THEN 0 ELSE d,
            !.epsilon = IF kind = "Prm" THEN 0 ELSE e,
            !.sampler = smp.id,
            !.verifier = IF kind = "Prm" THEN vrf.id ELSE 0,
            !.nearestNeighbors = nn.id]

\* ---------------------------------------------------------------- PlanTrajectory
\* constrainZAxis: the goal vectors that can result.  start(zAxisIndex) is read
\* without a bounds check, so a start shorter than the goal yields any value.
constrainZAxis(goalq, startq, zAxisIndex) ==
    IF zAxisIndex >= 0 /\ zAxisIndex < Len(goalq)
    THEN {[goalq EXCEPT ![zAxisIndex + 1] = v] :
            v \in IF zAxisIndex < Len(startq) THEN {startq[zAxisIndex + 1]} ELSE Vals}
    ELSE {goalq}

\* The goal vectors PlanTrajectory can build from a goal[] argument.
TempGoal(goalA, startq, useZAxis, dof) ==
    IF useZAxis = 0 /\ dof >= 3
    THEN constrainZAxis(SubSeq(goalA, 1, dof), startq, dof - 1)
    ELSE {SubSeq(goalA, 1, dof)}

\* What the engine does once the planner is bound: verify() returns false,
\* solve() returns false, a call throws std::exception or something else, or
\* the planner solves; the optimised path then runs from the bound start
\* over up to MaxMids intermediate configurations to the bound goal.
Via(dof) == Config(dof, 1, 0)
Mids(dof) == {[i \in 1..n |-> Via(dof)] : n \in 0..MaxMids}
Engines(dof) == {[result |-> r, mids |-> <<>>] :
                    r \in {"verifyFalse", "solveFalse", "throwStd", "throwOther"}}
                \cup {[result |-> "solved", mids |-> m] : m \in Mids(dof)}
Path(startq, goalq, engine) == <<startq>> \o engine.mids \o <<goalq>>

Min(a, b) == IF a < b THEN a ELSE b

\* The rows "waypoints[idx * dof + j] = waypoint(j)" can write for one
\* waypoint: waypoint(j) is read without a bounds check, so a waypoint with
\* fewer than dof components yields any value for the others.
CopiedRow(waypoint, dof) ==
    {[j \in 1..dof |-> IF j <= Len(waypoint) THEN waypoint[j] ELSE rest[j]] :
        rest \in [(Len(waypoint) + 1)..dof -> Vals]}

\* The rows the copy loop can write for the first count waypoints of path.
RECURSIVE CopiedRows(_, _, _)
CopiedRows(path, count, dof) ==
    IF count <= 0 THEN {<<>>}
    ELSE {Append(rows, row) : rows \in CopiedRows(path, count - 1, dof),
                              row \in CopiedRow(path[count], dof)}

\* CopyWaypoints with a loop that stops one row early.
CopyWaypointsShort(path, maxWaypoints, dof) ==
    LET count == Min(Len(path) - 1, maxWaypoints) IN
    {[count |-> count, rows |-> rows] : rows \in CopiedRows(path, count, dof)}

\* CopyWaypoints without the clamp to maxWaypoints.
CopyWaypointsUnclamped(path, maxWaypoints, dof) ==
    {[count |-> Len(path), rows |-> rows] : rows \in CopiedRows(path, Len(path), dof)}

\* "Copy waypoints to output buffer": the count written to *waypointCount and
\* the rows written to waypoints, in order.
CopyWaypoints(path, maxWaypoints, dof) ==
    LET count == Min(Len(path), maxWaypoints) IN
    {[count |-> count, rows |-> rows] : rows \in CopiedRows(path, count, dof)}

\* A PlanTrajectory return without a path: the code and whether
\* *waypointCount = 0 was written first.
NoPath(ret, countWritten) ==
    [ret |-> ret, countWritten |-> countWritten, count |-> 0, rows |-> <<>>,
     pathLen |-> 0, path |-> <<>>]

\* PlanOutcome with *waypointCount = 0 moved in front of verify() and solve().
PlanOutcomeZeroFirst(engine, path, maxWaypoints, dof) ==
    CASE engine.result = "verifyFalse" -> {NoPath(RL_ERROR_PLANNING_FAILED, TRUE)}
      [] engine.result = "solveFalse" -> {NoPath(RL_ERROR_PLANNING_FAILED, TRUE)}
      [] engine.result = "throwStd" -> {NoPath(RL_ERROR_PLANNING_FAILED, TRUE)}
      [] engine.result = "throwOther" -> {NoPath(RL_ERROR_EXCEPTION, TRUE)}
      [] OTHER ->
            {[ret |-> RL_SUCCESS, countWritten |-> TRUE, pathLen |-> Len(path),
              path |-> path] @@ c :
                c \in CopyWaypoints(path, maxWaypoints, dof)}

\* From verify() to the return: the codes that can be returned with what
\* was written to the caller's waypointCount and waypoints.
PlanOutcome(engine, path, maxWaypoints, dof) ==
    CASE engine.result = "verifyFalse" -> {NoPath(RL_ERROR_PLANNING_FAILED, FALSE)}
      [] engine.result = "solveFalse" -> {NoPath(RL_ERROR_PLANNING_FAILED, TRUE)}
      [] engine.result = "throwStd" -> {NoPath(RL_ERROR_PLANNING_FAILED, FALSE)}
      [] engine.result = "throwOther" -> {NoPath(RL_ERROR_EXCEPTION, FALSE)}
      [] OTHER ->
            {[ret |-> RL_SUCCESS, countWritten |-> TRUE, pathLen |-> Len(path),
              path |-> path] @@ c :
                c \in CopyWaypoints(path, maxWaypoints, dof)}

\* The planner kind string PlanTrajectory builds a planner from; "" stands
\* for a null or empty plannerType argument.
PlannerTypeStr(plannerTypeA) ==
    IF plannerTypeA # "" THEN plannerTypeA
    ELSE IF plannerType # "" THEN plannerType
    ELSE "rrtConCon"

Positive(arg, stored) == IF arg > 0 THEN arg ELSE stored

PlanRecord(startGiven, goalGiven, useZAxis, plannerTypeA, dof, maxWaypoints) ==
    [NoCall EXCEPT !.op = "PlanTrajectory", !.startArg = startGiven,
                   !.goalArg = goalGiven, !.useZAxis = useZAxis,
                   !.kindArg = plannerTypeA, !.dof = dof,
                   !.maxWaypoints = maxWaypoints]

PlanRejected(rec, ret) ==
    /\ last' = [rec EXCEPT !.ret = ret]
    /\ UNCHANGED <<alive, session, goodStart, goodGoal>>

\* A PlanTrajectory that keeps the vectors of the call as the session's start
\* and goal and fails to solve.
PlanWithStored(rec, startVec, goalVec, plannerTypeA, deltaA, epsilonA, timeoutMsA, maxWaypoints, engine) ==
    /\ start' = [id |-> StartId, q |-> startVec.q]
    /\ goal' = [id |-> GoalId, q |-> goalVec.q]
    /\ last' = [rec EXCEPT !.ret = RL_ERROR_PLANNING_FAILED, !.ran = planner.id # 0,
                           !.effStart = startVec.q, !.boundGoal = goalVec.q]
    /\ UNCHANGED <<alive, scene, kinematics, mdl, model, robotModel, initialized,
                   planner, sampler, verifier, nearestNeighbors, optimizer,
                   plannerType, delta, epsilon, timeoutMs, goodStart, goodGoal>>

\* A PlanTrajectory that builds a planner for every call and fails to solve.
PlanWithRebuilt(rec, startVec, goalVec, plannerTypeA, deltaA, epsilonA, timeoutMsA, maxWaypoints, engine) ==
    LET created == createPlanner(PlannerTypeStr(plannerTypeA), sampler, verifier,
                                 nearestNeighbors, Positive(deltaA, delta),
                                 Positive(epsilonA, epsilon))
    IN
    /\ planner' = [created EXCEPT !.model = model.id,
                                  !.duration = Positive(timeoutMsA, timeoutMs)]
    /\ last' = [rec EXCEPT !.ret = RL_ERROR_PLANNING_FAILED, !.ran = created.id # 0]
    /\ UNCHANGED <<alive, scene, kinematics, mdl, model, robotModel, initialized,
                   sampler, verifier, nearestNeighbors, optimizer, start, goal,
                   plannerType, delta, epsilon, timeoutMs, goodStart, goodGoal>>

\* PlanTrajectory from the point where both vectors are resolved: startVec and
\* goalVec are the vectors the planner is bound to.
PlanWith(rec, startVec, goalVec, plannerTypeA, deltaA, epsilonA, timeoutMsA, maxWaypoints, engine) ==
    LET newSampler == IF sampler.id = 0
                      THEN [id |-> ObjId, model |-> model.id]
                      ELSE sampler
        newVerifier == IF verifier.id = 0
                       THEN [id |-> ObjId,
                             model |-> model.id, delta |-> Positive(deltaA, delta)]
                       ELSE verifier
        newNearestNeighbors ==
            IF nearestNeighbors.id = 0
            THEN [id |-> ObjId, model |-> model.id]
            ELSE nearestNeighbors
        plannerTypeStr == PlannerTypeStr(plannerTypeA)
        useDelta == Positive(deltaA, delta)
        useEpsilon == Positive(epsilonA, epsilon)
        useTimeout == Positive(timeoutMsA, timeoutMs)
        created == createPlanner(plannerTypeStr, newSampler, newVerifier,
                                 newNearestNeighbors, useDelta, useEpsilon)
        rlPlanner == IF planner.id # 0 THEN planner
                     ELSE [created EXCEPT !.model = model.id, !.duration = useTimeout]
        bound == [rlPlanner EXCEPT !.start = startVec.id, !.goal = goalVec.id,
                                   !.duration = Positive(timeoutMsA, @)]
        \* At the return tempStart and tempGoal go out of scope.
        returned == [bound EXCEPT !.start = Released(@, TempStartId),
                                  !.goal = Released(@, TempGoalId)]
        outs == PlanOutcome(engine, Path(startVec.q, goalVec.q, engine),
                            maxWaypoints, rec.dof)
    IN
    IF planner.id = 0 /\ created.id = 0
    THEN /\ sampler' = newSampler
         /\ verifier' = newVerifier
         /\ nearestNeighbors' = newNearestNeighbors
         /\ last' = [rec EXCEPT !.ret = RL_ERROR_INVALID_PARAMETER,
                                !.effStart = startVec.q, !.boundGoal = goalVec.q]
         /\ UNCHANGED <<alive, scene, kinematics, mdl, model, robotModel, initialized,
                        planner, optimizer, start, goal, plannerType, delta, epsilon,
                        timeoutMs, goodStart, goodGoal>>
    ELSE /\ planner' = returned
         /\ IF planner.id = 0
            THEN /\ sampler' = newSampler
                 /\ verifier' = newVerifier
                 /\ nearestNeighbors' = newNearestNeighbors
                 /\ plannerType' = plannerTypeStr
                 /\ delta' = useDelta
                 /\ epsilon' = useEpsilon
                 /\ timeoutMs' = useTimeout
            ELSE UNCHANGED <<sampler, verifier, nearestNeighbors, plannerType,
                             delta, epsilon, timeoutMs>>
         /\ \E out \in outs :
               last' = [rec EXCEPT !.ret = out.ret, !.ran = TRUE,
                                   !.effStart = startVec.q, !.boundGoal = goalVec.q,
                                   !.pathLen = out.pathLen, !.path = out.path,
                                   !.countWritten = out.countWritten,
                                   !.count = out.count, !.rows = out.rows]
         /\ UNCHANGED <<alive, scene, kinematics, mdl, model, robotModel, initialized,
                        optimizer, start, goal, goodStart, goodGoal>>

PlanTrajectory(h, startA, startSize, goalA, goalSize, useZAxis, plannerTypeA, deltaA, epsilonA, timeoutMsA, waypoints, maxWaypoints, waypointCount) ==
    /\ Counted
    /\ alive
    /\ startSize <= Len(startA)
    /\ goalSize <= Len(goalA)
    /\ IF h = 0 \/ ~waypoints \/ ~waypointCount
       THEN Rejected("PlanTrajectory", RL_ERROR_INVALID_POINTER, FALSE)
       ELSE IF ~initialized \/ model.id = 0
       THEN Rejected("PlanTrajectory", RL_ERROR_NOT_INITIALIZED, FALSE)
       ELSE \E dof \in GetDofPosition :
            LET startGiven == startA # NullArray /\ startSize > 0
                goalGiven == goalA # NullArray /\ goalSize > 0
                rec == PlanRecord(startGiven, goalGiven, useZAxis, plannerTypeA,
                                  dof, maxWaypoints)
                tempStart == [id |-> TempStartId, q |-> SubSeq(startA, 1, dof)]
                startVec == IF startGiven THEN tempStart ELSE start
            IN
            IF startGiven /\ startSize # dof
            THEN PlanRejected(rec, RL_ERROR_INVALID_PARAMETER)
            ELSE IF ~startGiven /\ start.id = 0
            THEN PlanRejected(rec, RL_ERROR_INVALID_PARAMETER)
            ELSE IF goalGiven /\ goalSize # dof
            THEN PlanRejected(rec, RL_ERROR_INVALID_PARAMETER)
            ELSE IF ~goalGiven /\ goal.id = 0
            THEN PlanRejected(rec, RL_ERROR_INVALID_PARAMETER)
            ELSE \E engine \in Engines(dof) :
                 \E goalq \in IF goalGiven
                              THEN TempGoal(goalA, startVec.q, useZAxis, dof)
                              ELSE {goal.q} :
                    PlanWith([rec EXCEPT !.effGoal = IF goalGiven
                                                     THEN SubSeq(goalA, 1, dof)
                                                     ELSE goal.q],
                             startVec,
                             IF goalGiven THEN [id |-> TempGoalId, q |-> goalq] ELSE goal,
                             plannerTypeA, deltaA, epsilonA, timeoutMsA,
                             maxWaypoints, engine)

\* ---------------------------------------------------------------- LoadPlanXml
\* A plan descriptor, by what the XPath queries of LoadPlanXml find in it:
\*   kind          "plan" parses; "unreadable" and "crash" make the parser throw
\*                 std::exception or something else; "null" is xmlPath == nullptr
\*   root          name of the root element: "rlplan", or "rl" with a plan child
\*   hasScene, hasKinematics   model/scene and model/kinematics are present
\*   kinFile, sceneFile, index the files they name and model/model
\*   plannerElem   the first of rrtConCon, rrt, rrtGoalBias, prm; "" for none
\*   delta, epsilon            [present, value in thousandths, unit]
\*   duration      seconds; 0 for no duration element
\*   startQ, goalQ the start/q and goal/q values; <<>> for none
Absent == [present |-> FALSE, value |-> 0, unit |-> ""]
Scalar(value, unit) == [present |-> TRUE, value |-> value, unit |-> unit]

\* value * rl::math::constants::deg2rad, in thousandths.
Deg2Rad(value) == (value * 17453) \div 1000000
Converted(x, default) ==
    IF ~x.present THEN default
    ELSE IF x.unit = "deg" THEN Deg2Rad(x.value) ELSE x.value

PlanDefaultDelta == 1000
PlanDefaultEpsilon == 1
PlanDefaultTimeoutMs == 120000

\* "Extract planner type from root element".
DescriptorPlannerType(desc) ==
    IF desc.root \in {"rlplan", "plan"}
    THEN IF desc.plannerElem # "" THEN desc.plannerElem ELSE "rrtConCon"
    ELSE desc.root

\* std::make_shared<rl::math::Vector>(n) filled from the q elements.
DescriptorVector(id, q) == [id |-> id, q |-> q]

\* A loader whose answer is not settled by the descriptor.
LoadPlanXmlUnsettled(h, desc) ==
    /\ Counted
    /\ alive
    /\ \E ret \in {RL_ERROR_LOAD_FAILED, RL_ERROR_EXCEPTION} :
          Rejected("LoadPlanXml", ret, TRUE)

\* A loader that reports every failure as LOAD_FAILED.
LoadPlanXmlFlat(h, desc) ==
    /\ Counted
    /\ alive
    /\ Rejected("LoadPlanXml", RL_ERROR_LOAD_FAILED, TRUE)

LoadPlanXml(h, desc) ==
    /\ Counted
    /\ alive
    /\ IF h = 0 \/ desc.kind = "null"
       THEN Rejected("LoadPlanXml", RL_ERROR_INVALID_POINTER, FALSE)
       ELSE IF desc.kind = "unreadable"
       THEN Rejected("LoadPlanXml", RL_ERROR_LOAD_FAILED, TRUE)
       ELSE IF desc.kind = "crash"
       THEN Rejected("LoadPlanXml", RL_ERROR_EXCEPTION, TRUE)
       ELSE IF ~desc.hasScene \/ ~desc.hasKinematics
       THEN Rejected("LoadPlanXml", RL_ERROR_LOAD_FAILED, TRUE)
       ELSE
       LET plannerTypeStr == DescriptorPlannerType(desc)
           newDelta == Converted(desc.delta, PlanDefaultDelta)
           newEpsilon == Converted(desc.epsilon, PlanDefaultEpsilon)
           newTimeoutMs == IF desc.duration > 0 THEN desc.duration * 1000
                           ELSE PlanDefaultTimeoutMs
           k == KinematicsLoad(desc.kinFile)
           sc == SceneLoad(k.kinematics, k.model, desc.sceneFile, desc.index)
           newStart == IF desc.startQ # <<>>
                       THEN DescriptorVector(StartId, desc.startQ)
                       ELSE start
           newGoal == IF desc.goalQ # <<>>
                      THEN DescriptorVector(GoalId, desc.goalQ)
                      ELSE goal
           newSampler == [id |-> ObjId, model |-> sc.model.id]
           newVerifier == [id |-> ObjId, model |-> sc.model.id, delta |-> newDelta]
           newNearestNeighbors == [id |-> ObjId, model |-> sc.model.id]
           newOptimizer == [id |-> ObjId, model |-> sc.model.id,
                            verifier |-> newVerifier.id]
           created == createPlanner(plannerTypeStr, newSampler, newVerifier,
                                    newNearestNeighbors, newDelta, newEpsilon)
       IN
       /\ plannerType' = plannerTypeStr
       /\ delta' = newDelta
       /\ epsilon' = newEpsilon
       /\ timeoutMs' = newTimeoutMs
       /\ kinematics' = k.kinematics
       /\ mdl' = k.mdl
       /\ IF k.ret # RL_SUCCESS
          THEN /\ last' = Call("LoadPlanXml", k.ret, k.diag)
               /\ model' = k.model
               /\ UNCHANGED <<alive, scene, robotModel, initialized, planner,
                              sampler, verifier, nearestNeighbors, optimizer, start,
                              goal, goodStart, goodGoal>>
          ELSE
          /\ scene' = sc.scene
          /\ robotModel' = sc.robotModel
          /\ model' = sc.model
          /\ initialized' = sc.initialized
          /\ IF sc.ret # RL_SUCCESS
             THEN /\ last' = Call("LoadPlanXml", sc.ret, TRUE)
                  /\ planner' = IF sc.replaced THEN StaleModel(planner) ELSE planner
                  /\ sampler' = IF sc.replaced THEN StaleModel(sampler) ELSE sampler
                  /\ verifier' = IF sc.replaced THEN StaleModel(verifier) ELSE verifier
                  /\ nearestNeighbors' = IF sc.replaced
                                         THEN StaleModel(nearestNeighbors)
                                         ELSE nearestNeighbors
                  /\ optimizer' = IF sc.replaced THEN StaleModel(optimizer)
                                  ELSE optimizer
                  /\ UNCHANGED <<alive, start, goal, goodStart, goodGoal>>
             ELSE
             /\ start' = newStart
             /\ goal' = newGoal
             /\ sampler' = newSampler
             /\ verifier' = newVerifier
             /\ nearestNeighbors' = newNearestNeighbors
             /\ optimizer' = newOptimizer
             /\ planner' = IF created.id = 0 THEN NullPlanner
                           ELSE [created EXCEPT !.model = sc.model.id,
                                                !.duration = newTimeoutMs,
                                                !.start = newStart.id,
                                                !.goal = newGoal.id]
             /\ goodStart' = IF created.id # 0 /\ desc.startQ # <<>>
                             THEN desc.startQ ELSE goodStart
             /\ goodGoal' = IF created.id # 0 /\ desc.goalQ # <<>>
                            THEN desc.goalQ ELSE goodGoal
             /\ last' = Call("LoadPlanXml",
                             IF created.id = 0 THEN RL_ERROR_LOAD_FAILED
                             ELSE RL_SUCCESS, TRUE)
             /\ UNCHANGED alive

\* ---------------------------------------------------------------- IsValidConfiguration
\* The verifier's probe of the zero-length path <<q, q>>: it reports a
\* collision, reports none, or throws.
Probes == {"collision", "free", "throw"}

IsValidConfiguration(h, config, configSize, probe) ==
    /\ Counted
    /\ alive
    /\ configSize <= Len(config)
    /\ IF h = 0 \/ config = NullArray
       THEN Rejected("IsValidConfiguration", 0, TRUE)
       ELSE IF ~initialized \/ model.id = 0 \/ kinematics.id = 0
               \/ (model.kin = 0 /\ model.mdl = 0)
               \/ model.model.scene = 0 \/ model.scene = 0
       THEN Rejected("IsValidConfiguration", 0, FALSE)
       ELSE \E dof \in GetDofPosition :
            IF configSize # dof
            THEN Rejected("IsValidConfiguration", 0, FALSE)
            ELSE \E isValidResult \in IsValid(SubSeq(config, 1, dof)) :
                 IF ~isValidResult
                 THEN Rejected("IsValidConfiguration", 0, FALSE)
                 ELSE /\ verifier' =
                            IF verifier.id # 0 THEN verifier
                            ELSE [id |-> ObjId, model |-> model.id,
                                  delta |-> IF delta > 0 THEN delta ELSE DefaultDelta]
                      /\ last' = [Call("IsValidConfiguration",
                                       IF probe = "collision" THEN 0 ELSE 1, FALSE)
                                     EXCEPT !.probe = probe]
                      /\ UNCHANGED <<alive, scene, kinematics, mdl, model, robotModel,
                                     initialized, planner, sampler, nearestNeighbors,
                                     optimizer, start, goal, plannerType, delta,
                                     epsilon, timeoutMs, goodStart, goodGoal>>

\* ---------------------------------------------------------------- GetDof
\* GetDof with the handle passed on unchecked.
GetDofUnchecked(h) ==
    /\ Counted
    /\ alive
    /\ IF ~initialized \/ model.id = 0
       THEN Rejected("GetDof", RL_ERROR_NOT_INITIALIZED, FALSE)
       ELSE \E dof \in GetDofPosition : Rejected("GetDof", dof, FALSE)

GetDof(h) ==
    /\ Counted
    /\ alive
    /\ IF h = 0
       THEN Rejected("GetDof", RL_ERROR_INVALID_POINTER, FALSE)
       ELSE IF ~initialized \/ model.id = 0
       THEN Rejected("GetDof", RL_ERROR_NOT_INITIALIZED, FALSE)
       ELSE \E dof \in GetDofPosition : Rejected("GetDof", dof, FALSE)

\* ---------------------------------------------------------------- DestroyPlanner
\* delete state: every owned object is released and the handle is dead.
DestroyPlanner(h) ==
    /\ Counted
    /\ alive
    /\ IF h = 0
       THEN Rejected("DestroyPlanner", 0, FALSE)
       ELSE /\ alive' = FALSE
            /\ scene' = 0
            /\ kinematics' = NullKinematics
            /\ mdl' = NullMdl
            /\ model' = NullModel
            /\ robotModel' = NullRobotModel
            /\ initialized' = FALSE
            /\ planner' = NullPlanner
            /\ sampler' = NullSampler
            /\ verifier' = NullVerifier
            /\ nearestNeighbors' = NullNearestNeighbors
            /\ optimizer' = NullOptimizer
            /\ start' = NullVector
            /\ goal' = NullVector
            /\ plannerType' = ""
            /\ delta' = DefaultDelta
            /\ epsilon' = DefaultEpsilon
            /\ timeoutMs' = DefaultTimeoutMs
            /\ last' = Call("DestroyPlanner", 0, FALSE)
            /\ goodStart' = <<>>
            /\ goodGoal' = <<>>

\* ---------------------------------------------------------------- CreatePlanner
\* new PlannerState(): a fresh session behind a new handle.
CreatePlanner ==
    /\ Counted
    /\ ~alive
    /\ alive' = TRUE
    /\ last' = NoCall
    /\ UNCHANGED <<session, goodStart, goodGoal>>

\* ---------------------------------------------------------------- inputs
\* The arguments of a SetStartConfiguration, SetGoalConfiguration or
\* IsValidConfiguration call on the configurations cs:
\* <<handle, config, configSize>>.
ConfigCalls(cs) ==
    {<<0, Config(MinDof, 0, 0), MinDof>>, <<1, NullArray, 0>>,
     <<1, Config(MinDof, 0, 0), 0>>}
    \cup {<<1, c, Len(c)>> : c \in cs}

\* The arguments of a PlanTrajectory call.
PlanCall(h, s, g, useZAxis, type, d, e, t, waypoints, maxWaypoints, waypointCount) ==
    [h |-> h, start |-> s, startSize |-> Len(s), goal |-> g, goalSize |-> Len(g),
     useZAxis |-> useZAxis, plannerType |-> type, delta |-> d, epsilon |-> e,
     timeoutMs |-> t, waypoints |-> waypoints, maxWaypoints |-> maxWaypoints,
     waypointCount |-> waypointCount]
BaseCall == PlanCall(1, NullArray, NullArray, 1, "", 0, 0, 0, TRUE, MaxWaypointsArg, TRUE)
NullCalls ==
    {[BaseCall EXCEPT !.h = 0], [BaseCall EXCEPT !.waypoints = FALSE],
     [BaseCall EXCEPT !.waypointCount = FALSE]}

PlanFile(root, kinFile, sceneFile, index, plannerElem, d, e, duration, sq, gq) ==
    [kind |-> "plan", root |-> root, hasScene |-> TRUE, hasKinematics |-> TRUE,
     kinFile |-> kinFile, sceneFile |-> sceneFile, index |-> index,
     plannerElem |-> plannerElem, delta |-> d, epsilon |-> e,
     duration |-> duration, startQ |-> sq, goalQ |-> gq]
BasePlan == PlanFile("rlplan", KinFile("kinematics", MaxDof), "scene", 0, "",
                     Absent, Absent, 0, <<>>, <<>>)
\* Descriptors that differ from BasePlan in what makes LoadPlanXml fail.
BrokenPlans ==
    {[BasePlan EXCEPT !.kind = k] : k \in {"null", "unreadable", "crash"}}
    \cup {[BasePlan EXCEPT !.hasScene = FALSE], [BasePlan EXCEPT !.hasKinematics = FALSE],
          [BasePlan EXCEPT !.root = "rl"],
          [BasePlan EXCEPT !.kinFile = KinFile("unreadable", 0)],
          [BasePlan EXCEPT !.sceneFile = "unreadable"],
          [BasePlan EXCEPT !.index = NumModels]}
\* A descriptor that names its planner, gives delta in degrees, epsilon and a
\* duration, and has start and goal values.
TunedPlan == PlanFile("rlplan", KinFile("kinematics", MaxDof), "scene", 0, "prm",
                      Scalar(2000, "deg"), Scalar(5, ""), 2,
                      Config(MaxDof, 0, 0), Config(MaxDof, 0, 1))
\* BasePlan with the start and goal configurations qs (pairs; <<>> for none).
PlansWith(qs) == {[BasePlan EXCEPT !.startQ = q[1], !.goalQ = q[2]] : q \in qs}

\* ---------------------------------------------------------------- next-state relation
\* A null handle or path with one fixed other argument, and the live
\* handle with every argument of args.
WithNull(nullCall, args) == {nullCall} \cup {<<1, x>> : x \in args}

\* The boundary calls a host can make, with the files on disk and the
\* arguments taken from the environment E.
NextOn(E) ==
    \/ CreatePlanner
    \/ \E h \in {0, 1} : DestroyPlanner(h)
    \/ \E c \in WithNull(<<0, KinFile("kinematics", MaxDof)>>, E.kinFiles) :
          LoadKinematics(c[1], c[2])
    \/ \E c \in WithNull(<<0, "scene">>, E.sceneFiles), index \in E.indexes :
          LoadScene(c[1], c[2], index)
    \/ \E c \in WithNull(<<0, BasePlan>>, E.planFiles) : LoadPlanXml(c[1], c[2])
    \/ \E c \in E.configCalls : SetStartConfiguration(c[1], c[2], c[3])
    \/ \E c \in E.configCalls : SetGoalConfiguration(c[1], c[2], c[3])
    \/ \E c \in E.planCalls :
          PlanTrajectory(c.h, c.start, c.startSize, c.goal, c.goalSize, c.useZAxis,
                         c.plannerType, c.delta, c.epsilon, c.timeoutMs,
                         c.waypoints, c.maxWaypoints, c.waypointCount)
    \/ \E c \in E.configCalls, probe \in Probes :
          IsValidConfiguration(c[1], c[2], c[3], probe)
    \/ \E h \in {0, 1} : GetDof(h)

\* The environment: every kind of file; descriptors that fail to load and
\* descriptors with and without start and goal, of MinDof and of MaxDof
\* values, within and outside the joint limits; configurations of both sizes
\* as arguments; PlanTrajectory calls that vary the vectors and useZAxis,
\* the planner kind, or maxWaypoints.
PlanQs == {<<NullArray, NullArray>>, <<Config(MinDof, 0, 0), Config(MinDof, 0, 1)>>}
          \cup {<<Config(MaxDof, 0, 0), Config(MaxDof, 0, b)>> : b \in {1, MaxVal}}
StartArgs == {NullArray, Config(MinDof, 0, 0), Config(MaxDof, 0, 0)}
GoalArgs == {NullArray, Config(MinDof, 0, 1), Config(MaxDof, 0, 1),
             Config(MaxDof, 0, MaxVal)}
VectorCalls(starts, goals) ==
    {[BaseCall EXCEPT !.start = s, !.startSize = Len(s), !.goal = g,
                      !.goalSize = Len(g), !.useZAxis = 0] :
        s \in starts, g \in goals}
    \cup {[BaseCall EXCEPT !.start = s, !.startSize = Len(s), !.goal = g,
                           !.goalSize = Len(g)] :
            s \in {x \in starts : Len(x) = MaxDof},
            g \in {x \in goals : Len(x) = MaxDof}}
KindCalls ==
    {[BaseCall EXCEPT !.start = s, !.startSize = Len(s), !.goal = s,
                      !.goalSize = Len(s), !.plannerType = type] :
        s \in {NullArray, Config(MaxDof, 0, 0)}, type \in {"rrt", "sbl"}}
SizedCalls == {[BaseCall EXCEPT !.maxWaypoints = n] : n \in 0..MaxWaypointsArg}
Env ==
    [kinFiles |-> KinFiles, sceneFiles |-> SceneFiles, indexes |-> ModelIndexes,
     planFiles |-> BrokenPlans \cup PlansWith(PlanQs),
     configCalls |-> ConfigCalls({Config(MinDof, 0, 0)} \cup Configs(MaxDof)),
     planCalls |-> NullCalls \cup VectorCalls(StartArgs, GoalArgs) \cup KindCalls \cup SizedCalls]
Next == NextOn(Env)
Spec == Init /\ [][Next]_vars

\* The planning slice: one robot and one scene that load, so that the calls
\* of a host go to the configurations and to PlanTrajectory.
PlanEnv ==
    [kinFiles |-> {KinFile("kinematics", MaxDof)}, sceneFiles |-> {"scene"},
     indexes |-> {0},
     planFiles |-> PlansWith({<<NullArray, NullArray>>,
                              <<Config(MinDof, 0, 0), Config(MinDof, 0, 1)>>,
                              <<Config(MaxDof, 0, 0), Config(MaxDof, 0, 1)>>})
                   \cup {[BasePlan EXCEPT !.root = "rl"]},
     configCalls |-> ConfigCalls({Config(MaxDof, 0, z) : z \in {0, MaxVal}}),
     planCalls |-> NullCalls \cup KindCalls \cup SizedCalls
                   \cup VectorCalls({NullArray, Config(MaxDof, 0, 0)},
                                   {NullArray, Config(MinDof, 0, 1),
                                    Config(MaxDof, 0, 1)})]
NextPlan == NextOn(PlanEnv)
SpecPlan == Init /\ [][NextPlan]_vars

\* The loading slice: every kind of robot description, scene file, model
\* index and descriptor, with one configuration of each size and the plainest
\* PlanTrajectory calls.
LoadEnv ==
    [kinFiles |-> KinFiles, sceneFiles |-> SceneFiles, indexes |-> ModelIndexes,
     planFiles |-> BrokenPlans \cup {TunedPlan}
                   \cup PlansWith({<<NullArray, NullArray>>,
                                   <<Config(MaxDof, 0, 0), Config(MaxDof, 0, 1)>>}),
     configCalls |-> ConfigCalls({Config(MinDof, 0, 0), Config(MaxDof, 0, 0)}),
     planCalls |-> {BaseCall, [BaseCall EXCEPT !.h = 0]}]
NextLoad == NextOn(LoadEnv)
SpecLoad == Init /\ [][NextLoad]_vars

\* The tuning slice: one robot and one scene that load, and PlanTrajectory
\* calls that override the planner kind, delta and epsilon, or the timeout,
\* on the stored vectors and on vectors of their own.
Tunings(call) ==
    {call,
     [call EXCEPT !.delta = 50, !.epsilon = 2],
     [call EXCEPT !.timeoutMs = 500],
     [call EXCEPT !.plannerType = "prm"],
     [call EXCEPT !.plannerType = "rrt"],
     [call EXCEPT !.plannerType = "sbl", !.delta = 50]}
VectorCall ==
    [BaseCall EXCEPT !.start = Config(MaxDof, 0, 0), !.startSize = MaxDof,
                     !.goal = Config(MaxDof, 0, 1), !.goalSize = MaxDof]
TuneEnv ==
    [kinFiles |-> {KinFile("kinematics", MaxDof)}, sceneFiles |-> {"scene"},
     indexes |-> {0},
     planFiles |-> {BasePlan, TunedPlan},
     configCalls |-> ConfigCalls({Config(MaxDof, 0, 0)}),
     planCalls |-> Tunings(BaseCall) \cup Tunings(VectorCall)
                   \cup {[VectorCall EXCEPT !.goal = Config(MaxDof, 0, MaxVal)]}]
NextTune == NextOn(TuneEnv)
SpecTune == Init /\ [][NextTune]_vars

\* ---------------------------------------------------------------- claims
LastPlan == last.op = "PlanTrajectory"
\* The output row holds vector q in every component q has.
Holds(row, q) == \A j \in 1..Min(Len(row), Len(q)) : row[j] = q[j]

\* C1: whenever initialized is true, the planning model's scene pointer is the
\* session's current scene and its robot-model pointer is the session's
\* current robotModel, also after repeated and failing LoadScene calls.
ModelFollowsScene ==
    initialized => model.scene = scene /\ model.model = robotModel

\* C2: whenever the session holds a planner, the model pointer of the planner
\* and of the retained sampler, verifier and optimizer is the session's
\* current planning model, also after a later LoadScene or LoadPlanXml.
ComponentsFollowModel ==
    planner.id # 0 =>
        /\ planner.model = model.id
        /\ \A c \in {sampler, verifier, optimizer} : c.id # 0 => c.model = model.id

\* C3: after every call has returned, the planner's start and goal pointers
\* are null or point at the session's stored start and goal; never at a
\* vector of a finished PlanTrajectory or at a replaced stored vector.
PlannerVectorsAliasStored ==
    planner.id # 0 =>
        /\ planner.start = 0 \/ (start.id # 0 /\ planner.start = start.id)
        /\ planner.goal = 0 \/ (goal.id # 0 /\ planner.goal = goal.id)

\* C4: whenever initialized is true, a stored start or goal has exactly dof()
\* components and the planning model's isValid accepts it, whichever call
\* stored it and whatever that call returned.
StoredVectorsValid ==
    initialized =>
        \A v \in {start, goal} :
            v.id # 0 => /\ \A dof \in GetDofPosition : Len(v.q) = dof
                        /\ \A ok \in IsValid(v.q) : ok

\* C5: a PlanTrajectory without a start (goal) array plans from (to) the value
\* stored by the most recent call that returned SUCCESS; a SetStart, SetGoal
\* or LoadPlanXml that returned an error has changed nothing it observes.
PlanUsesLastAccepted ==
    LastPlan /\ last.ran =>
        /\ ~last.startArg => last.effStart = goodStart
        /\ ~last.goalArg => last.effGoal = goodGoal

\* C6: with useZAxis = 0 and dof >= 3 the goal bound to the planner has the
\* effective start's last component as its last component, whether the goal
\* came from goal[] or from the stored goal; else the goal is bound unmodified.
ZAxisConstrained ==
    LastPlan /\ last.ran =>
        IF last.useZAxis = 0 /\ last.dof >= 3
        THEN /\ Len(last.boundGoal) >= last.dof
             /\ Len(last.effStart) >= last.dof
             /\ last.boundGoal[last.dof] = last.effStart[last.dof]
        ELSE last.boundGoal = last.effGoal

\* C7: PlanTrajectory on an initialized session with a plannerType string that
\* names no planner kind returns INVALID_PARAMETER, whether or not the
\* session already holds a planner.
UnknownKindRejected ==
    LastPlan /\ last.kindArg # "" /\ PlannerKind(last.kindArg) = "" =>
        last.ret = RL_ERROR_INVALID_PARAMETER

\* C8: whenever PlanTrajectory returns PLANNING_FAILED, it has set
\* *waypointCount to 0.
PlanningFailedZeroesCount ==
    LastPlan /\ last.ret = RL_ERROR_PLANNING_FAILED =>
        last.countWritten /\ last.count = 0

\* C9: whenever PlanTrajectory returns INVALID_POINTER, INVALID_PARAMETER,
\* NOT_INITIALIZED or EXCEPTION, the call has written neither the waypoints
\* buffer nor *waypointCount.
ErrorsLeaveOutputs ==
    LastPlan /\ last.ret \in {RL_ERROR_INVALID_POINTER, RL_ERROR_INVALID_PARAMETER,
                              RL_ERROR_NOT_INITIALIZED, RL_ERROR_EXCEPTION} =>
        ~last.countWritten /\ last.rows = <<>>

\* A PlanTrajectory that bound the planner and ran it has returned EXCEPTION.
ErrorsLeaveOutputsSeen ==
    LastPlan /\ last.ran /\ last.ret = RL_ERROR_EXCEPTION

\* C10: after a PlanTrajectory that returns SUCCESS with *waypointCount >= 2,
\* row 0 is the effective start and row *waypointCount - 1 is the goal the
\* planner was bound to, for every maxWaypoints.
EndpointsForEveryMax ==
    LastPlan /\ last.ret = RL_SUCCESS /\ last.count >= 2 =>
        /\ last.rows[1] = last.effStart
        /\ last.rows[last.count] = last.boundGoal

\* C10 as amended: row 0 holds the effective start, and row
\* *waypointCount - 1 holds the goal the planner was bound to when
\* maxWaypoints is at least the length of the path; each row has dof
\* components and holds its vector in the components the vector has.
EndpointsUntruncated ==
    LastPlan /\ last.ret = RL_SUCCESS /\ last.count >= 2 =>
        /\ \A i \in 1..last.count : Len(last.rows[i]) = last.dof
        /\ Holds(last.rows[1], last.effStart)
        /\ last.maxWaypoints >= last.pathLen =>
               Holds(last.rows[last.count], last.boundGoal)

\* A path of three configurations with distinct ends was copied in full.
EndpointsUntruncatedSeen ==
    /\ LastPlan /\ last.ret = RL_SUCCESS
    /\ last.count >= 3 /\ last.count = last.pathLen
    /\ Len(last.effStart) = last.dof /\ Len(last.boundGoal) = last.dof
    /\ last.effStart # last.boundGoal

\* C11: after a successful PlanTrajectory, *waypointCount is
\* min(path.size(), maxWaypoints); the rows written are exactly rows
\* 0..*waypointCount - 1, each of dof cells, and cell j of row i holds
\* path[i][j], in path order (for a waypoint with fewer than dof components
\* the cells it has no component for hold whatever the unchecked read gave).
RowMajorCopy ==
    LastPlan /\ last.ret = RL_SUCCESS =>
        /\ last.countWritten
        /\ last.count = Min(Len(last.path), last.maxWaypoints)
        /\ Len(last.rows) = (IF last.count > 0 THEN last.count ELSE 0)
        /\ \A i \in 1..Len(last.rows) :
              /\ Len(last.rows[i]) = last.dof
              /\ Holds(last.rows[i], last.path[i])

\* A path longer than maxWaypoints was copied: the first maxWaypoints rows.
RowMajorCopySeen ==
    /\ LastPlan /\ last.ret = RL_SUCCESS
    /\ last.maxWaypoints >= 2 /\ last.maxWaypoints < Len(last.path)
    /\ last.count = last.maxWaypoints
    /\ last.rows = SubSeq(last.path, 1, last.maxWaypoints)

\* C12: IsValidConfiguration returns 1 if and only if the session is
\* initialized with kinematics, a model view, a bound scene and robot, the
\* size is dof(), isValid accepts the configuration and the verifier accepts
\* the zero-length path; a probe that throws yields 0.
ValidOnlyIfProbeAccepts ==
    last.op = "IsValidConfiguration" =>
        /\ last.ret \in {0, 1}
        /\ last.ret = 1 <=>
              /\ last.probe = "free"
              /\ initialized /\ kinematics.id # 0
              /\ (model.kin # 0 \/ model.mdl # 0)
              /\ model.model.scene # 0 /\ model.scene # 0

\* The calls of NextOn that pass a null session handle, but for
\* IsValidConfiguration.
NullHandleCall ==
    \/ LoadKinematics(0, KinFile("kinematics", MaxDof))
    \/ \E index \in PlanEnv.indexes : LoadScene(0, "scene", index)
    \/ LoadPlanXml(0, BasePlan)
    \/ \E c \in {x \in PlanEnv.configCalls : x[1] = 0} :
          \/ SetStartConfiguration(0, c[2], c[3])
          \/ SetGoalConfiguration(0, c[2], c[3])
    \/ \E c \in {x \in NullCalls : x.h = 0} :
          PlanTrajectory(0, c.start, c.startSize, c.goal, c.goalSize, c.useZAxis,
                         c.plannerType, c.delta, c.epsilon, c.timeoutMs,
                         c.waypoints, c.maxWaypoints, c.waypointCount)
    \/ GetDof(0)
NullHandleValidCall ==
    \E c \in {x \in PlanEnv.configCalls : x[1] = 0}, probe \in Probes :
        IsValidConfiguration(0, c[2], c[3], probe)

\* C13: every entry point other than CreatePlanner and DestroyPlanner,
\* IsValidConfiguration included, returns INVALID_POINTER when called with a
\* null handle, and changes nothing.
NullHandleInvalidPointer ==
    [][NullHandleCall \/ NullHandleValidCall =>
          last'.ret = RL_ERROR_INVALID_POINTER /\ UNCHANGED <<alive, session>>]_vars

\* C13 as amended: with a null handle IsValidConfiguration returns 0 and
\* every other entry point but CreatePlanner and DestroyPlanner returns
\* INVALID_POINTER; none of them changes anything.
NullHandleRejected ==
    [][/\ NullHandleCall =>
             last'.ret = RL_ERROR_INVALID_POINTER /\ UNCHANGED <<alive, session>>
       /\ NullHandleValidCall =>
             last'.ret = 0 /\ UNCHANGED <<alive, session>>]_vars

\* A loaded session has answered a GetDof on a null handle.
NullHandleRejectedSeen ==
    /\ last.op = "GetDof" /\ last.ret = RL_ERROR_INVALID_POINTER
    /\ initialized /\ planner.id # 0

\* C14: on a non-null handle GetDof returns NOT_INITIALIZED as long as no
\* LoadScene has succeeded, and in every state with initialized true it
\* returns the planning model's dof(), which is greater than 0.
GetDofPositive ==
    last.op = "GetDof" /\ last.ret # RL_ERROR_INVALID_POINTER =>
        IF initialized
        THEN last.ret > 0 /\ last.ret \in GetDofPosition
        ELSE last.ret = RL_ERROR_NOT_INITIALIZED

\* The codes the boundary table lists for each entry point.
ListedCodes(op) ==
    CASE op = "LoadKinematics" ->
            {RL_SUCCESS, RL_ERROR_INVALID_POINTER, RL_ERROR_LOAD_FAILED,
             RL_ERROR_EXCEPTION}
      [] op = "LoadScene" ->
            {RL_SUCCESS, RL_ERROR_INVALID_POINTER, RL_ERROR_INVALID_PARAMETER,
             RL_ERROR_LOAD_FAILED, RL_ERROR_EXCEPTION}
      [] op = "LoadPlanXml" ->
            {RL_SUCCESS, RL_ERROR_INVALID_POINTER, RL_ERROR_LOAD_FAILED,
             RL_ERROR_EXCEPTION}
      [] op \in {"SetStartConfiguration", "SetGoalConfiguration"} ->
            {RL_SUCCESS, RL_ERROR_INVALID_POINTER, RL_ERROR_INVALID_PARAMETER,
             RL_ERROR_NOT_INITIALIZED, RL_ERROR_EXCEPTION}
      [] op = "PlanTrajectory" ->
            {RL_SUCCESS, RL_ERROR_INVALID_POINTER, RL_ERROR_INVALID_PARAMETER,
             RL_ERROR_PLANNING_FAILED, RL_ERROR_NOT_INITIALIZED,
             RL_ERROR_EXCEPTION}
      [] op = "IsValidConfiguration" -> {0, 1}
      [] op = "GetDof" ->
            {RL_ERROR_INVALID_POINTER, RL_ERROR_NOT_INITIALIZED,
             RL_ERROR_EXCEPTION} \cup {n \in {last.ret} : n >= 0}
      [] OTHER -> {last.ret}

\* C15: every entry point returns only the codes the boundary table lists for
\* it, whatever the state of the session.
ReturnCodesListed == last.ret \in ListedCodes(last.op)

\* What LoadPlanXml does after its LoadScene step: the stored vectors, the
\* components and the planner.
laterSteps == <<start, goal, sampler, verifier, nearestNeighbors, optimizer, planner>>

\* C16: when the LoadKinematics or the LoadScene step of LoadPlanXml fails,
\* LoadPlanXml returns the code of that step (INVALID_PARAMETER for a model
\* index out of range, LOAD_FAILED for a file that cannot be read) and does
\* none of the later steps: no vector, component or planner is made.
SubFailureUnchanged ==
    [][\A desc \in {d \in LoadEnv.planFiles :
                        d.kind = "plan" /\ d.hasScene /\ d.hasKinematics} :
          LoadPlanXml(1, desc) =>
              LET k == KinematicsLoad(desc.kinFile)
                  sc == SceneLoad(k.kinematics, k.model, desc.sceneFile, desc.index)
                  outOfRange == desc.index < 0 \/ desc.index >= NumModels
              IN
              /\ k.ret # RL_SUCCESS =>
                    last'.ret = k.ret /\ UNCHANGED <<laterSteps, scene, initialized>>
              /\ k.ret = RL_SUCCESS /\ sc.ret # RL_SUCCESS =>
                    last'.ret = sc.ret /\ UNCHANGED laterSteps
              /\ desc.kinFile.kind = "unreadable" =>
                    last'.ret = RL_ERROR_LOAD_FAILED
              /\ k.ret = RL_SUCCESS /\ desc.sceneFile = "unreadable" =>
                    last'.ret = RL_ERROR_LOAD_FAILED
              /\ k.ret = RL_SUCCESS /\ desc.sceneFile = "scene" /\ outOfRange =>
                    last'.ret = RL_ERROR_INVALID_PARAMETER]_vars
SubFailureUnchangedSeen ==
    /\ last.op = "LoadPlanXml" /\ last.ret = RL_ERROR_INVALID_PARAMETER
    /\ planner.id # 0 /\ start.id # 0

\* A SetStartConfiguration or SetGoalConfiguration call with the arguments c.
SetConfigurationCall(c) ==
    SetStartConfiguration(c[1], c[2], c[3]) \/ SetGoalConfiguration(c[1], c[2], c[3])
NullArgument(c) == c[1] = 0 \/ c[2] = NullArray

\* C17: SetStartConfiguration and SetGoalConfiguration return INVALID_POINTER
\* for a null handle or array; with both non-null they return NOT_INITIALIZED
\* on a session that is not initialized, whatever the size n, and
\* INVALID_PARAMETER on an initialized session when n is not dof().
SetBeforeLoadAnySize ==
    [][\A c \in LoadEnv.configCalls :
          SetConfigurationCall(c) =>
              /\ NullArgument(c) => last'.ret = RL_ERROR_INVALID_POINTER
              /\ ~NullArgument(c) /\ ~initialized =>
                    last'.ret = RL_ERROR_NOT_INITIALIZED
              /\ ~NullArgument(c) /\ initialized /\ c[3] \notin GetDofPosition =>
                    last'.ret = RL_ERROR_INVALID_PARAMETER]_vars

\* C17 as amended: the size is looked at before the session, so a size
\* n <= 0 returns INVALID_PARAMETER in every state, and NOT_INITIALIZED is
\* the answer of a session that is not initialized for every n > 0.
SetBeforeLoadPositiveSize ==
    [][\A c \in LoadEnv.configCalls :
          SetConfigurationCall(c) =>
              /\ NullArgument(c) => last'.ret = RL_ERROR_INVALID_POINTER
              /\ ~NullArgument(c) /\ c[3] <= 0 =>
                    last'.ret = RL_ERROR_INVALID_PARAMETER
              /\ ~NullArgument(c) /\ c[3] > 0 /\ ~initialized =>
                    last'.ret = RL_ERROR_NOT_INITIALIZED
              /\ ~NullArgument(c) /\ initialized /\ c[3] \notin GetDofPosition =>
                    last'.ret = RL_ERROR_INVALID_PARAMETER]_vars
SetBeforeLoadPositiveSizeSeen ==
    /\ last.op \in {"SetStartConfiguration", "SetGoalConfiguration"}
    /\ last.ret = RL_ERROR_INVALID_PARAMETER
    /\ alive /\ ~initialized

\* The last call ended well: 1 from IsValidConfiguration, a DoF from GetDof,
\* SUCCESS from every other entry point.
Succeeded ==
    CASE last.op = "IsValidConfiguration" -> last.ret = 1
      [] last.op = "GetDof" -> last.ret >= 0
      [] OTHER -> last.ret = RL_SUCCESS

\* C18: a call that returns SUCCESS (or 1 from IsValidConfiguration) writes
\* nothing to the error stream; diagnostics are written only by calls that
\* end in an error.
QuietOnSuccess == last.diag => ~Succeeded

\* A session as CreatePlanner has just made it, and the session of Init.
Fresh == alive /\ last = NoCall
NewSession ==
    <<0, NullKinematics, NullMdl, NullModel, NullRobotModel, FALSE, NullPlanner,
      NullSampler, NullVerifier, NullNearestNeighbors, NullOptimizer, NullVector,
      NullVector, "", DefaultDelta, DefaultEpsilon, DefaultTimeoutMs>>

\* What GetDof answers with: nothing before the session is initialized.
DofSeen == IF initialized THEN GetDofPosition ELSE {}

\* LoadPlanXml(h, desc) cannot end with two different values of e out of
\* vs, and ends with no value of e outside vs.
Settles(desc, e, vs) ==
    /\ \A v, w \in vs :
          /\ ENABLED (LoadPlanXml(1, desc) /\ e' = v)
          /\ ENABLED (LoadPlanXml(1, desc) /\ e' = w)
          => v = w
    /\ ~ENABLED (LoadPlanXml(1, desc) /\ e' \notin vs)

LoadSceneSucceeds ==
    \/ \E file \in LoadEnv.sceneFiles, index \in LoadEnv.indexes :
          LoadScene(1, file, index) /\ last'.ret = RL_SUCCESS
    \/ \E desc \in {d \in LoadEnv.planFiles :
                        d.kind = "plan" /\ d.hasScene /\ d.hasKinematics} :
          LET k == KinematicsLoad(desc.kinFile)
              sc == SceneLoad(k.kinematics, k.model, desc.sceneFile, desc.index)
          IN LoadPlanXml(1, desc) /\ k.ret = RL_SUCCESS /\ sc.ret = RL_SUCCESS

\* C20: initialized is false on a session just created, becomes true only
\* by a LoadScene call that returns SUCCESS, and once true stays true through
\* every later call on the session, also through a LoadScene or LoadPlanXml
\* that fails after it has replaced the scene.
InitializedByLoadScene ==
    [][/\ Fresh' => ~initialized'
       /\ ~initialized /\ initialized' => LoadSceneSucceeds
       /\ initialized /\ alive' => initialized']_vars
InitializedByLoadSceneSeen ==
    /\ initialized /\ last.op \in {"LoadScene", "LoadPlanXml"}
    /\ last.ret # RL_SUCCESS /\ model.scene = Invalid

\* C21: LoadScene on a session that holds no kinematics writes a warning and
\* goes on: it wires the scene and the robot model into the planning model
\* and does not refuse the call with NOT_INITIALIZED.
SceneProceedsWithoutKinematics ==
    [][kinematics.id = 0 /\ (\E index \in 0..(NumModels - 1) : LoadScene(1, "scene", index))
          => /\ last'.ret # RL_ERROR_NOT_INITIALIZED
             /\ last'.diag
             /\ model'.scene = ObjId /\ model'.model = robotModel']_vars

\* C22: after a LoadKinematics that returns SUCCESS on an initialized session
\* the planning model has exactly one view, and that view is the session's
\* current kinematics object (as Dynamic if it is one, else as Kinematics).
ViewFollowsKinematics ==
    last.op = "LoadKinematics" /\ last.ret = RL_SUCCESS /\ initialized =>
        IF kinematics.dyn
        THEN model.mdl = kinematics.id /\ model.kin = 0
        ELSE model.kin = kinematics.id /\ model.mdl = 0

\* The host's PlanTrajectory call with the arguments c.
PlanTrajectoryCall(c) ==
    PlanTrajectory(c.h, c.start, c.startSize, c.goal, c.goalSize, c.useZAxis,
                   c.plannerType, c.delta, c.epsilon, c.timeoutMs,
                   c.waypoints, c.maxWaypoints, c.waypointCount)

\* C23: the planner that runs verify() and solve() in a PlanTrajectory call
\* has the effective delta and epsilon of that call, the argument if it is
\* positive and the stored value otherwise, on the first call and on every
\* call that reuses the retained planner.  (A PRM has neither parameter.)
PlannerHasEffectiveParameters ==
    [][\A c \in TuneEnv.planCalls :
          PlanTrajectoryCall(c) /\ last'.ran /\ planner'.kind # "Prm" =>
              /\ planner'.delta = Positive(c.delta, delta)
              /\ planner'.epsilon = Positive(c.epsilon, epsilon)]_vars

\* C24: in a PlanTrajectory call with timeoutMs <= 0 the planner runs with the
\* session's stored timeoutMs as its duration; a positive timeoutMs of an
\* earlier call does not carry over unless it became the stored value.
StoredTimeoutApplies ==
    [][\A c \in {x \in TuneEnv.planCalls : x.timeoutMs <= 0} :
          PlanTrajectoryCall(c) /\ last'.ran => planner'.duration = timeoutMs]_vars

\* C25: a PlanTrajectory call that names a recognized planner kind runs a
\* planner of that kind, also when the session already holds a planner of
\* another kind from LoadPlanXml or from an earlier PlanTrajectory.
NamedKindRuns ==
    [][\A c \in {x \in TuneEnv.planCalls : PlannerKind(x.plannerType) # ""} :
          PlanTrajectoryCall(c) /\ last'.ran =>
              planner'.kind = PlannerKind(c.plannerType)]_vars

\* C26: whenever the session holds a planner and a verifier, the verifier's
\* delta is the session's stored delta, whichever calls created the two.
VerifierDeltaIsStored ==
    planner.id # 0 /\ verifier.id # 0 => verifier.delta = delta

\* What makes a planner the object it is: everything but the model, the
\* vectors and the duration it is bound to.
Built(p) ==
    [id |-> p.id, kind |-> p.kind, delta |-> p.delta, epsilon |-> p.epsilon,
     sampler |-> p.sampler, verifier |-> p.verifier,
     nearestNeighbors |-> p.nearestNeighbors]

\* C27: once the session holds a planner, every PlanTrajectory call runs that
\* planner with the sampler, verifier and nearest-neighbours it was built
\* with and rebuilds none of them, whatever the call's arguments and outcome;
\* no call but LoadPlanXml (and the end of the session) replaces them.
PlannerRetained ==
    [][planner.id # 0 /\ alive' =>
          /\ last'.op = "PlanTrajectory" =>
                /\ Built(planner') = Built(planner)
                /\ sampler' = sampler
                /\ verifier' = verifier
                /\ nearestNeighbors' = nearestNeighbors
          /\ last'.op # "LoadPlanXml" =>
                /\ Built(planner') = Built(planner)
                /\ sampler'.id = sampler.id
                /\ verifier'.id = verifier.id /\ verifier'.delta = verifier.delta
                /\ nearestNeighbors'.id = nearestNeighbors.id]_vars
PlannerRetainedSeen ==
    /\ LastPlan /\ last.ran /\ last.ret = RL_ERROR_PLANNING_FAILED
    /\ last.kindArg = "rrt" /\ planner.kind = "RrtConCon" /\ last.startArg

\* C28: for a descriptor of either shape (root rlplan, or root rl with a plan
\* child) whose kinematics and scene load, LoadPlanXml takes the first planner
\* element of the plan, or rrtConCon if there is none, stores it as the
\* session's planner kind, builds a planner of that kind and returns SUCCESS.
PlannerElementSelected ==
    [][\A desc \in {d \in LoadEnv.planFiles :
                        d.kind = "plan" /\ d.hasScene /\ d.hasKinematics} :
          LET k == KinematicsLoad(desc.kinFile)
              sc == SceneLoad(k.kinematics, k.model, desc.sceneFile, desc.index)
              chosen == IF desc.plannerElem # "" THEN desc.plannerElem
                        ELSE "rrtConCon"
          IN
          LoadPlanXml(1, desc) /\ k.ret = RL_SUCCESS /\ sc.ret = RL_SUCCESS =>
              /\ last'.ret = RL_SUCCESS
              /\ plannerType' = chosen
              /\ planner'.id # 0 /\ planner'.kind = PlannerKind(chosen)]_vars

\* C29: PlanTrajectory leaves the session's stored start and goal as they
\* were, presence and components, whatever its arguments and its outcome;
\* the start and goal arguments and the Z-axis overwrite touch only the
\* vectors of the call.
PlanKeepsStoredVectors ==
    [][last'.op = "PlanTrajectory" => start' = start /\ goal' = goal]_vars
PlanKeepsStoredVectorsSeen ==
    /\ LastPlan /\ last.ran /\ last.startArg /\ last.goalArg /\ last.useZAxis = 0
    /\ last.boundGoal # last.effGoal
    /\ goal.id # 0 /\ goal.q = last.effGoal /\ start.id # 0

\* C30: IsValidConfiguration is a query: whatever the state and the
\* arguments, scene, kinematics, planning model, components, planner, stored
\* vectors, parameters and initialized are after the call what they were
\* before it, so that no later call runs differently for it.
ValidityQueryIsPure ==
    [][last'.op = "IsValidConfiguration" => UNCHANGED session]_vars

====
